---- MODULE Spec2Model ----
(***************************************************************************)
(* RFAM ROI tool: the metrics engine (analyzer.py, compute_metrics) and    *)
(* the batch run that drives it (main.py, main).                           *)
(*                                                                         *)
(* An image is a grayscale raster, a function from pixels <<x, y>> to      *)
(* 0..255.  A mask (numpy bool / uint8 0-255 array) is the set of its set  *)
(* pixels.  A Python dict is a function from the keys it holds to tagged   *)
(* values; None is the value [tag |-> "None"].                             *)
(***************************************************************************)
EXTENDS Integers, Sequences, FiniteSets, TLC

\* ---------------------------------------------------------------- bounds
ImgW == 3
ImgH == 2
MaxRadius == 2
MaxPx == 2
MaxAxis == 2
MaxRois == 2

\* ------------------------------------------------------------- the raster
Xs == 0 .. (ImgW - 1)
Ys == 0 .. (ImgH - 1)
Pixels == Xs \X Ys
NPixels == ImgW * ImgH
GrayValues == {100, 255}
Images == [Pixels -> GrayValues]

Abs(n) == IF n < 0 THEN -n ELSE n
Max2(a, b) == IF a >= b THEN a ELSE b
Min2(a, b) == IF a <= b THEN a ELSE b
SetMin(S) == CHOOSE m \in S : \A n \in S : m <= n
SetMax(S) == CHOOSE m \in S : \A n \in S : m >= n

\* evaluate v once and hand its value to Op (a local variable of the code)
Bind(v, Op(_)) == CHOOSE r \in {Op(x) : x \in {v}} : TRUE

\* raster (row-major) index of a pixel: the order in which numpy and the
\* contour scanner visit pixels
RasterIndex(p) == p[2] * ImgW + p[1]
RasterFirst(S) == CHOOSE p \in S : \A q \in S : RasterIndex(p) <= RasterIndex(q)
PixelAt(k) == <<k % ImgW, k \div ImgW>>

\* ------------------------------------------------------------ Python values
None == [tag |-> "None"]
PyInt(n) == [tag |-> "int", v |-> n]
PyStr(s) == [tag |-> "str", s |-> s]
PyMask(S) == [tag |-> "mask", px |-> S]
EmptyDict == [key \in {} |-> None]
DictGet(d, key) == IF key \in DOMAIN d THEN d[key] ELSE None

\* ------------------------------------------------- threshold_image (Otsu)
\* x*y > u*v for x, u < 2^31 and small y, v, without leaving 32 bits
Split16(x, y) ==
    LET lo == (x % 65536) * y
    IN <<(x \div 65536) * y + (lo \div 65536), lo % 65536>>
MulGreater(x, y, u, v) ==
    LET a == Split16(x, y)
        b == Split16(u, v)
    IN a[1] > b[1] \/ (a[1] = b[1] /\ a[2] > b[2])

GraySum(gray) ==
    LET RECURSIVE Acc(_)
        Acc(k) == IF k = NPixels THEN 0
                  ELSE gray[PixelAt(k)] + Acc(k + 1)
    IN Acc(0)

\* getThreshVal_Otsu_8u scans the 256 bins i = 0..255 and keeps the first bin
\* of greatest between-class variance of the split {<= i} / {> i},
\*   q1*q2*(mu1-mu2)^2 = (s1*n2 - s2*n1)^2 / (N^2*n1*n2),
\* skipping the bins that leave one class empty; it starts from max_val = 0,
\* max_sigma = 0 and replaces them only on a strictly greater variance.  The
\* variance changes only at a bin that holds pixels, so the first greatest
\* bin is a gray value of the image: the scan is a search over those.
OtsuSigma(gray, total, i) ==
    LET n1 == Cardinality({p \in Pixels : gray[p] <= i})
        n2 == NPixels - n1
        s1 == GraySum([p \in Pixels |-> IF gray[p] <= i THEN gray[p] ELSE 0])
        d == Abs(s1 * n2 - (total - s1) * n1)
    IN <<d * d, n1 * n2>>

OtsuThreshold(gray) ==
    LET total == GraySum(gray)
        bins == {i \in {gray[p] : p \in Pixels} :
                    /\ \E p \in Pixels : gray[p] > i
                    /\ OtsuSigma(gray, total, i)[1] > 0}
        Greater(i, j) == MulGreater(OtsuSigma(gray, total, i)[1],
                                    OtsuSigma(gray, total, j)[2],
                                    OtsuSigma(gray, total, j)[1],
                                    OtsuSigma(gray, total, i)[2])
        best == {i \in bins : \A j \in bins : ~Greater(j, i)}
    IN IF bins = {} THEN 0 ELSE SetMin(best)

\* cv2.threshold(gray, 0, 255, THRESH_BINARY + THRESH_OTSU).astype(bool):
\* True exactly for the pixels strictly above the Otsu threshold
threshold_image(gray) ==
    Bind(OtsuThreshold(gray), LAMBDA t : {p \in Pixels : gray[p] > t})

\* ------------------------------------------------------------ the ROI mask
\* ROIs as the GUI hands them over; type "None" stands for a missing 'type'
\* key (roi.get('type') is None).  label, ink_key and rep are the caller's.
Roi(type, points, center, radius) ==
    [type |-> type, points |-> points, center |-> center, radius |-> radius,
     label |-> 0, ink_key |-> 0, rep |-> 0]

\* cv2.fillPoly(mask, [pts], 255): the model draws axis-aligned rectangles
\* only (four corner points), for which the fill is the closed rectangle,
\* clipped to the image
fillPoly(pts) ==
    LET xs == {pts[j][1] : j \in DOMAIN pts}
        ys == {pts[j][2] : j \in DOMAIN pts}
    IN {p \in Pixels : /\ SetMin(xs) <= p[1] /\ p[1] <= SetMax(xs)
                       /\ SetMin(ys) <= p[2] /\ p[2] <= SetMax(ys)}

\* one horizontal run of the filled circle, clipped to the image
HLine(y, xa, xb) == {p \in Pixels : p[2] = y /\ xa <= p[1] /\ p[1] <= xb}

\* cv2.circle(mask, center, radius, 255, -1): the midpoint loop of OpenCV's
\* Circle(), four clipped runs per step
RECURSIVE CircleLoop(_, _, _, _, _, _, _)
CircleLoop(cx, cy, dx, dy, err, plus, minus) ==
    IF dx < dy THEN {}
    ELSE LET runs == HLine(cy - dy, cx - dx, cx + dx)
                     \cup HLine(cy + dy, cx - dx, cx + dx)
                     \cup HLine(cy - dx, cx - dy, cx + dy)
                     \cup HLine(cy + dx, cx - dy, cx + dy)
             err1 == err + plus
             step == err1 > 0
         IN runs \cup CircleLoop(cx, cy,
                                 IF step THEN dx - 1 ELSE dx,
                                 dy + 1,
                                 IF step THEN err1 - minus ELSE err1,
                                 plus + 2,
                                 IF step THEN minus - 2 ELSE minus)

circle(center, radius) ==
    CircleLoop(center[1], center[2], radius, 0, 0, 1, 2 * radius - 1)

\* step 1 of compute_metrics: the ROI drawn into a zero mask; any other
\* type draws nothing and makes compute_metrics return {}
build_mask_else_circle(roi) ==
    IF roi.type = "polygon" THEN [drawn |-> TRUE, px |-> fillPoly(roi.points)]
    ELSE [drawn |-> TRUE, px |-> circle(roi.center, roi.radius)]

build_mask(roi) ==
    IF roi.type = "polygon" THEN [drawn |-> TRUE, px |-> fillPoly(roi.points)]
    ELSE IF roi.type = "circle"
         THEN [drawn |-> TRUE, px |-> circle(roi.center, roi.radius)]
         ELSE [drawn |-> FALSE, px |-> {}]

\* the rasterized ROI
roi_mask(roi) == build_mask(roi).px

\* step 3: roi_gray = bitwise_and(gray, gray, mask): blacked out outside
roi_gray(gray, mask) == [p \in Pixels |-> IF p \in mask THEN gray[p] ELSE 0]

\* step 5: the global Otsu classification of the WHOLE image (roi_gray is
\* computed and left unused), inverted inside the ROI
global_thresh_of_roi_gray(gray, mask) == threshold_image(roi_gray(gray, mask))

global_thresh(gray, mask) == threshold_image(gray)

object_mask_unmasked(gray, mask) ==
    Bind(global_thresh(gray, mask), LAMBDA bright : {p \in Pixels : p \notin bright})

object_mask(gray, mask) ==
    Bind(global_thresh(gray, mask),
         LAMBDA bright : {p \in Pixels : p \notin bright /\ p \in mask})

\* --------------------------------------------------------- findContours
\* the eight chain-code steps of OpenCV's border follower (icvCodeDeltas):
\* 0 = east, then counter-clockwise on the screen (y grows downwards)
CodeDeltas == <<<<1, 0>>, <<1, -1>>, <<0, -1>>, <<-1, -1>>,
                <<-1, 0>>, <<-1, 1>>, <<0, 1>>, <<1, 1>>>>
Step(p, s) == <<p[1] + CodeDeltas[(s % 8) + 1][1], p[2] + CodeDeltas[(s % 8) + 1][2]>>

Adjacent8(p, q) == Abs(p[1] - q[1]) <= 1 /\ Abs(p[2] - q[2]) <= 1
Adjacent4(p, q) == Abs(p[1] - q[1]) + Abs(p[2] - q[2]) = 1

\* the 8-connected component of the mask m around the pixels seen so far
RECURSIVE Flood(_, _, _)
Flood(m, seen, frontier) ==
    IF frontier = {} THEN seen
    ELSE LET nxt == {q \in m \ seen : \E p \in frontier : Adjacent8(p, q)}
         IN Flood(m, seen \cup nxt, nxt)

\* the components in the order the raster scan meets them
RECURSIVE Components(_)
Components(m) ==
    IF m = {} THEN <<>>
    ELSE LET c == Flood(m, {RasterFirst(m)}, {RasterFirst(m)})
         IN <<c>> \o Components(m \ c)

\* the background that reaches the image frame through 4-connected zero
\* pixels; RETR_EXTERNAL keeps the borders that lie in it
OnFrame(p) == p[1] = 0 \/ p[1] = ImgW - 1 \/ p[2] = 0 \/ p[2] = ImgH - 1
RECURSIVE FloodOutside(_, _, _)
FloodOutside(m, seen, frontier) ==
    IF frontier = {} THEN seen
    ELSE LET nxt == {q \in (Pixels \ m) \ seen : \E p \in frontier : Adjacent4(p, q)}
         IN FloodOutside(m, seen \cup nxt, nxt)
Outside(m) ==
    LET frame == {p \in Pixels \ m : OnFrame(p)}
    IN FloodOutside(m, frame, frame)
IsExternal(outside, comp) ==
    LET west == Step(RasterFirst(comp), 4)
    IN west \notin Pixels \/ west \in outside

\* icvFetchContour, outer border, CHAIN_APPROX_SIMPLE.  i0 is the border's
\* first pixel in raster order.  The start looks clockwise from the west
\* neighbour for the first set neighbour i1 (s = 4 again: a single pixel).
RECURSIVE StartDir(_, _, _)
StartDir(m, i0, s) ==
    LET s1 == (s + 7) % 8
    IN IF Step(i0, s1) \in m \/ s1 = 4 THEN s1 ELSE StartDir(m, i0, s1)

\* the first set neighbour of i3 counter-clockwise from direction s
RECURSIVE NextDir(_, _, _)
NextDir(m, i3, s) ==
    IF Step(i3, s) \in m THEN s % 8 ELSE NextDir(m, i3, s + 1)

\* the border-following loop: a point is written where the direction changes
RECURSIVE Follow(_, _, _, _, _, _, _)
Follow(m, i0, i1, i3, s, prev_s, pts) ==
    LET sn == NextDir(m, i3, s + 1)
        i4 == Step(i3, sn)
        out == IF sn # prev_s THEN Append(pts, i3) ELSE pts
    IN IF i4 = i0 /\ i3 = i1 THEN out
       ELSE Follow(m, i0, i1, i4, (sn + 4) % 8, sn, out)

FetchContour(m, i0) ==
    LET s == StartDir(m, i0, 4)
    IN IF s = 4 THEN <<i0>>
       ELSE Follow(m, i0, Step(i0, s), i0, s, (s + 4) % 8, <<>>)

\* cv2.findContours(m, RETR_EXTERNAL, CHAIN_APPROX_SIMPLE): one contour per
\* external component, the component met last by the scan first in the list
RECURSIVE ContourList(_, _, _, _)
ContourList(m, comps, outside, j) ==
    IF j = 0 THEN <<>>
    ELSE (IF IsExternal(outside, comps[j])
          THEN <<FetchContour(m, RasterFirst(comps[j]))>> ELSE <<>>)
         \o ContourList(m, comps, outside, j - 1)

findContours(m) ==
    Bind(Components(m), LAMBDA comps :
        Bind(Outside(m), LAMBDA outside : ContourList(m, comps, outside, Len(comps))))

\* ---------------------------------------------------- contour measurements
NextPt(cnt, j) == cnt[(j % Len(cnt)) + 1]

\* twice cv2.contourArea(cnt): the absolute shoelace sum
RECURSIVE Shoelace(_, _)
Shoelace(cnt, j) ==
    IF j > Len(cnt) THEN 0
    ELSE cnt[j][1] * NextPt(cnt, j)[2] - NextPt(cnt, j)[1] * cnt[j][2]
         + Shoelace(cnt, j + 1)
contourArea2_signed(cnt) == IF Len(cnt) = 0 THEN 0 ELSE Shoelace(cnt, 1)

contourArea2(cnt) == IF Len(cnt) = 0 THEN 0 ELSE Abs(Shoelace(cnt, 1))

\* max(contours, key=cv2.contourArea): the first contour of greatest area
MaxContour(contours) ==
    Bind([j \in DOMAIN contours |-> contourArea2(contours[j])], LAMBDA area :
        contours[SetMin({j \in DOMAIN contours :
                            \A k \in DOMAIN contours : area[k] <= area[j]})])

\* cv2.arcLength(cnt, True) = straight + diag * sqrt(2): every segment of a
\* CHAIN_APPROX_SIMPLE border runs along one of the eight chain directions
RECURSIVE ArcSteps(_, _, _)
ArcSteps(cnt, j, diagonal) ==
    IF j > Len(cnt) THEN 0
    ELSE LET dx == Abs(NextPt(cnt, j)[1] - cnt[j][1])
             dy == Abs(NextPt(cnt, j)[2] - cnt[j][2])
         IN (IF (dx # 0 /\ dy # 0) = diagonal THEN Max2(dx, dy) ELSE 0)
            + ArcSteps(cnt, j + 1, diagonal)
arcLength(cnt) ==
    [straight |-> ArcSteps(cnt, 1, FALSE), diag |-> ArcSteps(cnt, 1, TRUE)]
Positive(perim) == perim.straight + perim.diag > 0

\* cv2.moments(cnt), the sums of contourMoments over the edges
\* (x[j-1], y[j-1]) -> (x[j], y[j]), starting from the last point
RECURSIVE MomentSums(_, _)
MomentSums(cnt, j) ==
    IF j > Len(cnt) THEN [a00 |-> 0, a10 |-> 0, a01 |-> 0,
                          a20 |-> 0, a11 |-> 0, a02 |-> 0]
    ELSE LET prev == IF j = 1 THEN cnt[Len(cnt)] ELSE cnt[j - 1]
             xi_1 == prev[1]
             yi_1 == prev[2]
             xi == cnt[j][1]
             yi == cnt[j][2]
             dxy == xi_1 * yi - xi * yi_1
             xii_1 == xi_1 + xi
             yii_1 == yi_1 + yi
             rest == MomentSums(cnt, j + 1)
         IN [a00 |-> rest.a00 + dxy,
             a10 |-> rest.a10 + dxy * xii_1,
             a01 |-> rest.a01 + dxy * yii_1,
             a20 |-> rest.a20 + dxy * (xi_1 * xii_1 + xi * xi),
             a11 |-> rest.a11 + dxy * (xi_1 * (yii_1 + yi_1) + xi * (yii_1 + yi)),
             a02 |-> rest.a02 + dxy * (yi_1 * yii_1 + yi * yi)]

\* With m00 = a00/2, m10 = a10/6, m01 = a01/6, m20 = a20/12, m11 = a11/24,
\* m02 = a02/12 (signs turned so that m00 > 0), the normalised central
\* moments are, over the common denominator 18*a00^2,
\*   mu20/m00 = p20, mu02/m00 = p02, 2*mu11/m00 = p11
\* and inertia_ratio = (S - sqrt(T2)) / (S + sqrt(T2)) with S = p20 + p02
\* and T2 = (p20 - p02)^2 + p11^2.  The value is kept as the pair S, T2.
InertiaTerms(cnt) ==
    LET a == MomentSums(cnt, 1)
        sg == IF a.a00 < 0 THEN -1 ELSE 1
        a00 == sg * a.a00
        p20 == 3 * sg * a.a20 * a00 - 2 * a.a10 * a.a10
        p02 == 3 * sg * a.a02 * a00 - 2 * a.a01 * a.a01
        p11 == 3 * sg * a.a11 * a00 - 4 * a.a10 * a.a01
    IN [m00x2 |-> a00, S |-> p20 + p02,
        T2 |-> (p20 - p02) * (p20 - p02) + p11 * p11]

\* cv2.convexHull(cnt), walked from the raster-first point: the next vertex
\* leaves every point on one side, the farthest of the collinear ones
Cross(o, a, b) == (a[1] - o[1]) * (b[2] - o[2]) - (a[2] - o[2]) * (b[1] - o[1])
Dist2(a, b) == (a[1] - b[1]) * (a[1] - b[1]) + (a[2] - b[2]) * (a[2] - b[2])
RECURSIVE HullWalk(_, _, _, _)
HullWalk(P, start, cur, acc) ==
    LET nxt == CHOOSE q \in P \ {cur} : \A r \in P :
                   /\ Cross(cur, q, r) >= 0
                   /\ (Cross(cur, q, r) = 0 => Dist2(cur, r) <= Dist2(cur, q))
    IN IF nxt = start THEN acc ELSE HullWalk(P, start, nxt, Append(acc, nxt))
convexHull(cnt) ==
    LET P == {cnt[j] : j \in DOMAIN cnt}
    IN IF Cardinality(P) = 1 THEN <<cnt[1]>>
       ELSE HullWalk(P, RasterFirst(P), RasterFirst(P), <<RasterFirst(P)>>)

\* ------------------------------------------------------ the metric groups
\* a Python float kept exact: num/den, or the square root of num/den
PyFloat(num, den) == [tag |-> "float", num |-> num, den |-> den]
PySqrt(num, den) ==
    IF num < 0 THEN [tag |-> "nan"] ELSE [tag |-> "sqrt", num |-> num, den |-> den]

\* gray[object_mask.astype(bool)]: the object's gray values in raster order
RECURSIVE Gather(_, _, _)
Gather(gray, obj, k) ==
    IF k = NPixels THEN <<>>
    ELSE (IF PixelAt(k) \in obj THEN <<gray[PixelAt(k)]>> ELSE <<>>)
         \o Gather(gray, obj, k + 1)

RECURSIVE SeqSum(_, _)
SeqSum(f, j) == IF j > Len(f) THEN 0 ELSE f[j] + SeqSum(f, j + 1)

\* the k-th smallest element of a sequence
Kth(f, k) ==
    CHOOSE v \in {f[j] : j \in DOMAIN f} :
        /\ Cardinality({j \in DOMAIN f : f[j] < v}) < k
        /\ Cardinality({j \in DOMAIN f : f[j] <= v}) >= k

\* np.mean, np.median, np.std (population) as exact values
npMean(f) == PyFloat(SeqSum(f, 1), Len(f))
npMedian(f) ==
    LET n == Len(f)
    IN IF n % 2 = 1 THEN PyFloat(2 * Kth(f, (n + 1) \div 2), 2)
       ELSE PyFloat(Kth(f, n \div 2) + Kth(f, n \div 2 + 1), 2)
npStd(f) ==
    LET n == Len(f)
        s == SeqSum(f, 1)
        q == SeqSum([j \in DOMAIN f |-> f[j] * f[j]], 1)
    IN PySqrt(n * q - s * s, n * n)

IntensityGroup_zero_stats(gray, obj) ==
    Bind(Gather(gray, obj, 0), LAMBDA obj_pixels :
    LET stats == IF Len(obj_pixels) > 0
                 THEN ("mean_I" :> npMean(obj_pixels))
                      @@ ("median_I" :> npMedian(obj_pixels))
                      @@ ("std_I" :> npStd(obj_pixels))
                 ELSE ("mean_I" :> PyFloat(0, 1)) @@ ("median_I" :> PyFloat(0, 1))
                      @@ ("std_I" :> PyFloat(0, 1))
    IN stats @@ ("area_px" :> PyInt(Cardinality(obj)))
             @@ ("intensity_pixels" :> [tag |-> "array", v |-> obj_pixels]))

\* step 7: intensity metrics on the object pixels
IntensityGroup(gray, obj) ==
    Bind(Gather(gray, obj, 0), LAMBDA obj_pixels :
    LET stats == IF Len(obj_pixels) > 0
                 THEN ("mean_I" :> npMean(obj_pixels))
                      @@ ("median_I" :> npMedian(obj_pixels))
                      @@ ("std_I" :> npStd(obj_pixels))
                 ELSE ("mean_I" :> None) @@ ("median_I" :> None) @@ ("std_I" :> None)
    IN stats @@ ("area_px" :> PyInt(Cardinality(obj)))
             @@ ("intensity_pixels" :> [tag |-> "array", v |-> obj_pixels]))

\* step 8: shape metrics of the largest contour
ShapeGroup(contours) ==
    Bind(MaxContour(contours), LAMBDA cnt :
    LET area2 == contourArea2(cnt)
        perim == arcLength(cnt)
        M == InertiaTerms(cnt)
        hull_area2 == contourArea2(convexHull(cnt))
        inertia == IF M.m00x2 # 0
                   THEN ("inertia_ratio" :>
                            IF ~(M.S <= 0 /\ M.S * M.S = M.T2)
                            THEN [tag |-> "ratio", S |-> M.S, T2 |-> M.T2]
                            ELSE None)
                   ELSE EmptyDict
    IN ("perimeter_px" :> [tag |-> "length", straight |-> perim.straight,
                           diag |-> perim.diag])
       @@ ("circularity" :>
              IF Positive(perim)
              THEN [tag |-> "circ", area2 |-> area2, straight |-> perim.straight,
                    diag |-> perim.diag]
              ELSE None)
       @@ inertia
       @@ ("convexity" :> IF hull_area2 > 0 THEN PyFloat(area2, hull_area2) ELSE None))

\* cv2.getStructuringElement(cv2.MORPH_ELLIPSE, (5,5)): rows -2 and 2 hold the
\* centre column only, rows -1..1 are full
Kernel == {d \in (-2 .. 2) \X (-2 .. 2) : Abs(d[2]) = 2 => d[1] = 0}

\* cv2.erode(m, kernel, iterations=1): the minimum over the kernel; pixels
\* beyond the image frame do not count (the default border of erode)
erode(m) ==
    {p \in m : \A d \in Kernel :
        <<p[1] + d[1], p[2] + d[2]>> \in Pixels => <<p[1] + d[1], p[2] + d[2]>> \in m}

\* the largest contour of halo = object_mask - core, if the halo has one
HaloContour(obj) ==
    Bind(erode(obj), LAMBDA core :
        Bind(obj \ core, LAMBDA halo :
            Bind(findContours(halo), LAMBDA halo_cnts :
                IF halo_cnts = <<>> THEN <<>> ELSE MaxContour(halo_cnts))))

\* cv2.fitEllipse answers a rotated rectangle whose size is (width, height)
\* with width <= height: the fitter swaps the two when width > height.
\* The model keeps its answer as a pair of whole diameters.
FitOutcomes == {ax \in (0 .. MaxAxis) \X (0 .. MaxAxis) : ax[1] <= ax[2]}
NoFit == <<0, 0>>

\* the radii compute_metrics takes from the fit: a, b = axes[0]/2, axes[1]/2
Radii(axes) == [a2 |-> axes[1], b2 |-> axes[2]]

\* step 9: halo eccentricity, sqrt(1 - (b*b)/(a*a))
HaloGroup(obj, axes) ==
    Bind(HaloContour(obj), LAMBDA hc :
        LET r == Radii(axes)
        IN IF Len(hc) >= 5 /\ r.a2 > 0
           THEN ("halo_eccentricity" :>
                    PySqrt(r.a2 * r.a2 - r.b2 * r.b2, r.a2 * r.a2))
           ELSE EmptyDict)

\* px_per_mm as the session holds it: None, a number, or something else
PxInputs == {None, PyStr("px")} \cup {PyInt(n) : n \in -1 .. MaxPx}
Truthy(v) == ~(v = None \/ (v.tag = "int" /\ v.v = 0))

AreaConversion_linear(results, px_per_mm) ==
    IF Truthy(px_per_mm) /\ px_per_mm.tag = "int" /\ px_per_mm.v > 0
       /\ "area_px" \in DOMAIN results
    THEN ("area_mm2" :> PyFloat(results["area_px"].v, px_per_mm.v))
    ELSE EmptyDict

\* step 10: area conversion
AreaConversion(results, px_per_mm) ==
    IF Truthy(px_per_mm) /\ px_per_mm.tag = "int" /\ px_per_mm.v > 0
       /\ "area_px" \in DOMAIN results
    THEN ("area_mm2" :> PyFloat(results["area_px"].v, px_per_mm.v * px_per_mm.v))
    ELSE EmptyDict

RunShape_needs_intensity(do_intensity, do_shape, do_halo, contours) ==
    do_intensity /\ do_shape /\ contours # <<>>

\* the guards of steps 7, 8 and 9
RunIntensity(do_intensity, do_shape, do_halo) == do_intensity
RunShape(do_intensity, do_shape, do_halo, contours) == do_shape /\ contours # <<>>
RunHalo(do_intensity, do_shape, do_halo, contours) == do_halo /\ contours # <<>>

compute_metrics(img, roi, px_per_mm, do_intensity, do_shape, do_halo, axes) ==
    Bind(build_mask(roi), LAMBDA built :
    IF ~built.drawn THEN EmptyDict
    ELSE IF built.px = {} THEN EmptyDict
    ELSE Bind(object_mask(img, built.px), LAMBDA obj :
         Bind(findContours(obj), LAMBDA contours :
         Bind(("contours" :> [tag |-> "contours", v |-> contours])
              @@ ("mask_full" :> PyMask(obj))
              @@ (IF RunIntensity(do_intensity, do_shape, do_halo)
                  THEN IntensityGroup(img, obj) ELSE EmptyDict)
              @@ (IF RunShape(do_intensity, do_shape, do_halo, contours)
                  THEN ShapeGroup(contours) ELSE EmptyDict)
              @@ (IF RunHalo(do_intensity, do_shape, do_halo, contours)
                  THEN HaloGroup(obj, axes) ELSE EmptyDict),
              LAMBDA results : results @@ AreaConversion(results, px_per_mm)))))

\* whether the call reaches cv2.fitEllipse
CallsFitEllipse(img, roi, do_halo) ==
    /\ do_halo
    /\ build_mask(roi).drawn
    /\ Bind(object_mask(img, roi_mask(roi)), LAMBDA obj : Len(HaloContour(obj)) >= 5)

\* ------------------------------------------------------------- the inputs
Rect(x0, y0, x1, y1) == <<<<x0, y0>>, <<x1, y0>>, <<x1, y1>>, <<x0, y1>>>>
NoPoints == <<>>
NoCenter == <<0, 0>>
FullRect == Roi("polygon", Rect(0, 0, ImgW - 1, ImgH - 1), NoCenter, 0)
OutsideRect == Roi("polygon", Rect(ImgW, 0, ImgW + 1, 1), NoCenter, 0)
PolygonRois ==
    {FullRect, OutsideRect,
     Roi("polygon", Rect(0, 0, 1, 1), NoCenter, 0),
     Roi("polygon", Rect(1, 0, ImgW, 0), NoCenter, 0)}
CircleRois ==
    {Roi("circle", NoPoints, c, r) :
        c \in {<<0, 0>>, <<1, 1>>, <<ImgW + MaxRadius, 0>>}, r \in 0 .. MaxRadius}
Ruler == Roi("ruler", NoPoints, NoCenter, 0)
Untagged == Roi("None", NoPoints, NoCenter, 0)
RoiInputs == PolygonRois \cup CircleRois \cup {Ruler, Untagged}

\* session['rois'] of the batch run: up to MaxRois ROIs, labelled in order
MainRois == {FullRect, Roi("circle", NoPoints, <<0, 0>>, 1),
             Roi("circle", NoPoints, <<ImgW + MaxRadius, 0>>, 1), Ruler}
RoiLists ==
    LET Labelled(f) == [j \in DOMAIN f |->
                           [f[j] EXCEPT !.label = j, !.ink_key = 1, !.rep = j]]
    IN UNION {{Labelled(f) : f \in [1 .. n -> MainRois]} : n \in 1 .. MaxRois}

Flags == [intensity : BOOLEAN, shape : BOOLEAN, halo : BOOLEAN]
NotCalled == [tag |-> "not called"]

VARIABLES
    image,      \* the full-resolution image
    px_per_mm,  \* session['px_per_mm']
    analysis,   \* session['analysis']: the three group flags
    roi,        \* the ROI of one call of compute_metrics
    fit,        \* what cv2.fitEllipse answered in that call
    ret,        \* what the call returned
    rois,       \* session['rois']
    results,    \* main's list of records
    pc,         \* where main is
    k,          \* how many results the heatmap loop has passed
    heatmaps,   \* the heatmaps shown
    plots,      \* the global plots called
    warnings    \* the warnings printed
vars == <<image, px_per_mm, analysis, roi, fit, ret,
          rois, results, pc, k, heatmaps, plots, warnings>>
mainVars == <<rois, results, pc, k, heatmaps, plots, warnings>>

\* ----------------------------------------------- one call of compute_metrics
InitMetrics ==
    /\ image \in Images
    /\ px_per_mm \in PxInputs
    /\ analysis \in Flags
    /\ roi \in RoiInputs
    /\ fit = NoFit
    /\ ret = NotCalled
    /\ rois = <<>>
    /\ results = <<>>
    /\ pc = "idle"
    /\ k = 0
    /\ heatmaps = <<>>
    /\ plots = <<>>
    /\ warnings = <<>>

Call ==
    /\ ret = NotCalled
    /\ pc = "idle"
    /\ \E axes \in (IF CallsFitEllipse(image, roi, analysis.halo)
                    THEN FitOutcomes ELSE {NoFit}) :
          /\ fit' = axes
          /\ ret' = [tag |-> "returned",
                     d |-> compute_metrics(image, roi, px_per_mm, analysis.intensity,
                                           analysis.shape, analysis.halo, axes)]
    /\ UNCHANGED <<image, px_per_mm, analysis, roi>>
    /\ UNCHANGED mainVars

NextMetrics == Call
SpecMetrics == InitMetrics /\ [][NextMetrics]_vars

\* --------------------------------------------------------------- main()
\* main.py line 70
pad == 1000

InitMain ==
    /\ image \in Images
    /\ px_per_mm = PyInt(MaxPx)
    /\ analysis \in Flags
    /\ roi = Untagged
    /\ fit = NoFit
    /\ ret = NotCalled
    /\ rois \in RoiLists
    /\ results = <<>>
    /\ pc = "metrics"
    /\ k = 0
    /\ heatmaps = <<>>
    /\ plots = <<>>
    /\ warnings = <<>>

sessionVars == <<image, px_per_mm, analysis, roi, fit, ret, rois>>

\* metrics.update({...}): the keys of u replace those of d
DictUpdate(d, u) == u @@ d

\* step 3: one turn of the loop over session['rois']
MetricsStep ==
    /\ pc = "metrics"
    /\ LET r == rois[Len(results) + 1]
       IN \E axes \in (IF CallsFitEllipse(image, r, analysis.halo)
                       THEN FitOutcomes ELSE {NoFit}) :
            LET metrics == compute_metrics(image, r, px_per_mm, analysis.intensity,
                                           analysis.shape, analysis.halo, axes)
                record == DictUpdate(metrics,
                              ("label" :> PyInt(r.label))
                              @@ ("ink_key" :> PyInt(r.ink_key))
                              @@ ("rep" :> PyInt(r.rep))
                              @@ ("mask_full" :> DictGet(metrics, "mask_full")))
            IN results' = Append(results, record)
    /\ pc' = IF Len(results) + 1 = Len(rois) THEN "heatmaps" ELSE "metrics"
    /\ UNCHANGED <<k, heatmaps, plots, warnings>>
    /\ UNCHANGED sessionVars

\* step 4: one turn of the loop over results
AfterHeatmap == IF k + 1 = Len(results) THEN "plots" ELSE "heatmaps"

\* mask is None: continue
HeatmapSkip ==
    /\ pc = "heatmaps"
    /\ DictGet(results[k + 1], "mask_full") = None
    /\ k' = k + 1
    /\ pc' = AfterHeatmap
    /\ UNCHANGED <<results, heatmaps, plots, warnings>>
    /\ UNCHANGED sessionVars

\* ys, xs = np.nonzero(mask); ys.min() of an empty array raises ValueError,
\* which nothing in main catches
HeatmapRaise ==
    /\ pc = "heatmaps"
    /\ DictGet(results[k + 1], "mask_full") # None
    /\ results[k + 1]["mask_full"].px = {}
    /\ pc' = "raised"
    /\ UNCHANGED <<results, k, heatmaps, plots, warnings>>
    /\ UNCHANGED sessionVars

\* the padded bounding box of the mask, cropped and shown
HeatmapShow ==
    /\ pc = "heatmaps"
    /\ DictGet(results[k + 1], "mask_full") # None
    /\ results[k + 1]["mask_full"].px # {}
    /\ LET mask == results[k + 1]["mask_full"].px
           y0 == SetMin({p[2] : p \in mask})
           y1 == SetMax({p[2] : p \in mask})
           x0 == SetMin({p[1] : p \in mask})
           x1 == SetMax({p[1] : p \in mask})
       IN heatmaps' = Append(heatmaps,
                         [label |-> results[k + 1]["label"],
                          y0p |-> Max2(0, y0 - pad),
                          y1p |-> Min2(ImgH - 1, y1 + pad),
                          x0p |-> Max2(0, x0 - pad),
                          x1p |-> Min2(ImgW - 1, x1 + pad),
                          mean_val |-> DictGet(results[k + 1], "mean_I")])
    /\ k' = k + 1
    /\ pc' = AfterHeatmap
    /\ UNCHANGED <<results, plots, warnings>>
    /\ UNCHANGED sessionVars

\* [r[key] for r in results if r.get(key) is not None], as the indices of
\* the records it takes from and as the values
RECURSIVE From(_, _, _)
From(rs, key, j) ==
    IF j > Len(rs) THEN <<>>
    ELSE (IF DictGet(rs[j], key) # None THEN <<j>> ELSE <<>>) \o From(rs, key, j + 1)
Values(rs, key) == [j \in DOMAIN From(rs, key, 1) |-> rs[From(rs, key, 1)[j]][key]]

\* one plot call: what it is handed and the records each argument came from
Plot(name, xkey, ykey) ==
    [name |-> name, x |-> Values(results, xkey), y |-> Values(results, ykey),
     x_from |-> From(results, xkey, 1), y_from |-> From(results, ykey, 1)]

\* plot_histogram(arr, lbl), once per record that has intensity_pixels
Histograms ==
    LET from == From(results, "intensity_pixels", 1)
    IN [j \in DOMAIN from |->
           [name |-> "histogram", x |-> <<results[from[j]]["intensity_pixels"]>>,
            y |-> <<results[from[j]]["label"]>>,
            x_from |-> <<from[j]>>, y_from |-> <<from[j]>>]]

\* the labels taken beside mean_vals, and no second argument at all
MeanLabels == [j \in DOMAIN From(results, "mean_I", 1) |->
                  results[From(results, "mean_I", 1)[j]]["label"]]
Boxplot == [Plot("boxplot", "mean_I", "mean_I") EXCEPT !.y = MeanLabels]
AreaHistogram ==
    [Plot("area_histogram", "area_px", "area_px") EXCEPT !.y = <<>>, !.y_from = <<>>]

\* plt.scatter(x, y) raises ValueError unless x and y have the same size
ScatterNames == {"area_vs_intensity", "circularity_vs_intensity"}
ScatterRaises(call) == call.name \in ScatterNames /\ Len(call.x) # Len(call.y)

\* step 5 and the additional global plots; every plot sits in a try/except
\* that prints a warning
GlobalPlots ==
    LET mean_vals == Values(results, "mean_I")
        areas == Values(results, "area_px")
        circs == Values(results, "circularity")
    IN Histograms
       \o (IF mean_vals # <<>> THEN <<Boxplot>> ELSE <<>>)
       \o (IF areas # <<>> THEN <<AreaHistogram>> ELSE <<>>)
       \o (IF areas # <<>> /\ mean_vals # <<>>
           THEN <<Plot("area_vs_intensity", "area_px", "mean_I")>> ELSE <<>>)
       \o (IF analysis.shape /\ circs # <<>> /\ mean_vals # <<>>
           THEN <<Plot("circularity_vs_intensity", "circularity", "mean_I")>>
           ELSE <<>>)

PlotsStep ==
    /\ pc = "plots"
    /\ \E calls \in {GlobalPlots} :
          /\ plots' = calls
          /\ warnings' = SelectSeq(calls, ScatterRaises)
    /\ pc' = "export"
    /\ UNCHANGED <<results, k, heatmaps>>
    /\ UNCHANGED sessionVars

\* step 6: build_dataframe and export_csv write the records out
ExportStep ==
    /\ pc = "export"
    /\ pc' = "outlines"
    /\ UNCHANGED <<results, k, heatmaps, plots, warnings>>
    /\ UNCHANGED sessionVars

\* step 7: the outlines overlay, inside its own try/except
OutlinesStep ==
    /\ pc = "outlines"
    /\ pc' = "done"
    /\ UNCHANGED <<results, k, heatmaps, plots, warnings>>
    /\ UNCHANGED sessionVars

NextMain ==
    \/ MetricsStep
    \/ HeatmapSkip
    \/ HeatmapRaise
    \/ HeatmapShow
    \/ PlotsStep
    \/ ExportStep
    \/ OutlinesStep
SpecMain == InitMain /\ [][NextMain]_vars

\* ------------------------------------------------------------ properties
Returned == ret.tag = "returned"
IntensityStats == {"mean_I", "median_I", "std_I"}
IntensityFields == IntensityStats \cup {"area_px", "intensity_pixels"}
ShapeFields == {"perimeter_px", "circularity", "inertia_ratio", "convexity"}
HaloFields == {"halo_eccentricity"}
Restrict(d, keys) == [key \in (DOMAIN d) \cap keys |-> d[key]]

\* C1: whenever compute_metrics returns a record with 'mask_full', every
\* pixel of that object mask is a pixel of the rasterized ROI mask.
C1_ObjectInRoi ==
    (Returned /\ "mask_full" \in DOMAIN ret.d)
        => ret.d["mask_full"].px \subseteq roi_mask(roi)

\* a returned object mask while the image has a dark pixel outside the ROI
C1_Witness ==
    /\ Returned
    /\ "mask_full" \in DOMAIN ret.d
    /\ ret.d["mask_full"].px # {}
    /\ \E p \in Pixels \ roi_mask(roi) : p \notin threshold_image(image)

\* C2 as stated: an empty object mask gives area_px == 0 and every
\* intensity, shape and halo field null, whatever the three flags are.
C2_AsStated ==
    (Returned /\ "mask_full" \in DOMAIN ret.d /\ ret.d["mask_full"].px = {})
        => /\ DictGet(ret.d, "area_px") = PyInt(0)
           /\ \A key \in IntensityStats \cup ShapeFields \cup HaloFields :
                 DictGet(ret.d, key) = None

\* C2: an empty object mask gives area_px == 0 when do_intensity is set and
\* no area_px field when it is not; every intensity statistic, shape field
\* and halo field is null or absent, whatever the three flags are.
C2_EmptyObject ==
    (Returned /\ "mask_full" \in DOMAIN ret.d /\ ret.d["mask_full"].px = {})
        => /\ analysis.intensity => DictGet(ret.d, "area_px") = PyInt(0)
           /\ ~analysis.intensity => "area_px" \notin DOMAIN ret.d
           /\ \A key \in IntensityStats \cup ShapeFields \cup HaloFields :
                 DictGet(ret.d, key) = None

\* an empty object mask measured with the intensity group switched off
C2_Witness ==
    /\ Returned
    /\ "mask_full" \in DOMAIN ret.d
    /\ ret.d["mask_full"].px = {}
    /\ ~analysis.intensity /\ analysis.shape /\ analysis.halo
    /\ "area_px" \notin DOMAIN ret.d

PositiveNumber(v) == v.tag = "int" /\ v.v > 0
AreaIsConverted ==
    /\ "area_mm2" \in DOMAIN ret.d
    /\ "area_px" \in DOMAIN ret.d
    /\ ret.d["area_mm2"].tag = "float"
    /\ ret.d["area_mm2"].den > 0
    /\ ret.d["area_mm2"].num * (px_per_mm.v * px_per_mm.v)
          = ret.d["area_px"].v * ret.d["area_mm2"].den

\* C3 as stated: for a supported ROI with a non-empty ROI mask, area_mm2 is
\* area_px / px_per_mm^2 whenever px_per_mm is a number > 0 and is absent
\* for every other px_per_mm.
C3_AsStated ==
    (Returned /\ build_mask(roi).drawn /\ roi_mask(roi) # {})
        => IF PositiveNumber(px_per_mm) THEN AreaIsConverted
           ELSE "area_mm2" \notin DOMAIN ret.d

\* C3: for a supported ROI with a non-empty ROI mask, area_mm2 is
\* area_px / px_per_mm^2 whenever px_per_mm is a number > 0 and the
\* intensity group ran (do_intensity set, so that area_px exists); it is
\* absent when px_per_mm is missing, zero, negative or non-numeric, and
\* when do_intensity is not set.
C3_AreaConversion ==
    (Returned /\ build_mask(roi).drawn /\ roi_mask(roi) # {})
        => IF PositiveNumber(px_per_mm) /\ analysis.intensity THEN AreaIsConverted
           ELSE "area_mm2" \notin DOMAIN ret.d

\* a usable calibration and a non-empty object, the intensity group off
C3_Witness ==
    /\ Returned
    /\ px_per_mm = PyInt(MaxPx)
    /\ ~analysis.intensity
    /\ "mask_full" \in DOMAIN ret.d
    /\ ret.d["mask_full"].px # {}
    /\ "area_mm2" \notin DOMAIN ret.d

\* C4: no ROI list makes the batch run abort with a raised error: the run
\* never stops short of its CSV export.
C4_RunNeverAborts == pc # "raised"

InUnitRange(v) == v.tag = "sqrt" /\ 0 <= v.num /\ v.num < v.den

\* C5: when the halo group runs, halo_eccentricity is absent if the largest
\* halo contour has fewer than 5 points, and otherwise present and in [0,1).
C5_EccentricityInRange ==
    (Returned /\ analysis.halo /\ "contours" \in DOMAIN ret.d
              /\ ret.d["contours"].v # <<>>)
        => IF Len(HaloContour(ret.d["mask_full"].px)) < 5
           THEN "halo_eccentricity" \notin DOMAIN ret.d
           ELSE /\ "halo_eccentricity" \in DOMAIN ret.d
                /\ InUnitRange(ret.d["halo_eccentricity"])

\* C6: an ROI whose tag is neither 'polygon' nor 'circle', a missing tag
\* included, gets the empty record, whatever image, px_per_mm and flags.
C6_UnsupportedEmpty ==
    (Returned /\ roi.type \notin {"polygon", "circle"}) => ret.d = EmptyDict

\* a ruler measured with every group on and a usable calibration
C6_Witness ==
    /\ Returned
    /\ roi.type = "ruler"
    /\ analysis.intensity /\ analysis.shape /\ analysis.halo
    /\ px_per_mm = PyInt(MaxPx)

GroupFields(g) ==
    IF g = "intensity" THEN IntensityFields
    ELSE IF g = "shape" THEN ShapeFields ELSE HaloFields

\* the same call with only group g's flag kept
Alone(g) ==
    compute_metrics(image, roi, px_per_mm,
                    analysis.intensity /\ g = "intensity",
                    analysis.shape /\ g = "shape",
                    analysis.halo /\ g = "halo", fit)

\* C7: the fields of each group are there only when the group's own flag is
\* set, and their presence and values are what the same call gives with the
\* other two flags off, hence the same for every setting of the other two.
C7_GroupsIndependent ==
    Returned =>
        \A g \in {"intensity", "shape", "halo"} :
            /\ ~analysis[g] => Restrict(ret.d, GroupFields(g)) = EmptyDict
            /\ Restrict(ret.d, GroupFields(g)) = Restrict(Alone(g), GroupFields(g))

\* all three groups ran and each left a value
C7_Witness ==
    /\ Returned
    /\ analysis.intensity /\ analysis.shape /\ analysis.halo
    /\ DictGet(ret.d, "mean_I") # None
    /\ DictGet(ret.d, "convexity") # None
    /\ "halo_eccentricity" \in DOMAIN ret.d

\* the doubled areas of the selected contour and of its hull
SelectedArea2 == contourArea2(MaxContour(ret.d["contours"].v))
SelectedHullArea2 == contourArea2(convexHull(MaxContour(ret.d["contours"].v)))
ConvexityIsRatio ==
    /\ ret.d["convexity"].tag = "float"
    /\ ret.d["convexity"].den > 0
    /\ ret.d["convexity"].num * SelectedHullArea2
          = SelectedArea2 * ret.d["convexity"].den
    /\ ret.d["convexity"].num <= ret.d["convexity"].den

\* C8 as stated: when the shape group runs, convexity is null if the hull
\* area is zero and otherwise area(contour)/area(hull), in (0,1].
C8_AsStated ==
    (Returned /\ "convexity" \in DOMAIN ret.d)
        => IF SelectedHullArea2 = 0 THEN ret.d["convexity"] = None
           ELSE ConvexityIsRatio /\ ret.d["convexity"].num > 0

\* C8: when the shape group runs, convexity is null if the hull area is
\* zero and otherwise area(contour)/area(hull), in [0,1]: it is 0 for a
\* contour that encloses no area while its hull does.
C8_Convexity ==
    (Returned /\ "convexity" \in DOMAIN ret.d)
        => IF SelectedHullArea2 = 0 THEN ret.d["convexity"] = None
           ELSE ConvexityIsRatio /\ ret.d["convexity"].num >= 0

\* a contour of zero area with a hull of positive area
C8_Witness ==
    /\ Returned
    /\ "convexity" \in DOMAIN ret.d
    /\ ret.d["convexity"] # None
    /\ ret.d["convexity"].num = 0
    /\ ret.d["convexity"].den > 0

HasMask(j) == DictGet(results[j], "mask_full") # None

\* C9: for one image and any two supported ROIs, a pixel inside both ROI
\* masks is in the object mask of one result exactly when it is in the
\* object mask of the other.
C9_ClassificationGlobal ==
    \A a \in DOMAIN results : \A b \in DOMAIN results :
        (HasMask(a) /\ HasMask(b))
            => \A p \in roi_mask(rois[a]) \cap roi_mask(rois[b]) :
                  p \in results[a]["mask_full"].px <=> p \in results[b]["mask_full"].px

\* two different ROIs measured on one image, sharing an ink pixel and a
\* background pixel
C9_Witness ==
    /\ Len(results) = 2
    /\ HasMask(1) /\ HasMask(2)
    /\ rois[1].type # rois[2].type
    /\ \E p \in roi_mask(rois[1]) \cap roi_mask(rois[2]) :
          p \in results[1]["mask_full"].px /\ p \in results[2]["mask_full"].px
    /\ \E q \in roi_mask(rois[1]) \cap roi_mask(rois[2]) :
          q \notin results[1]["mask_full"].px /\ q \notin results[2]["mask_full"].px

\* C10: the two sequences handed to a scatter plot have the same length and
\* their k-th elements come from the same ROI.
C10_ScatterAligned ==
    \A j \in DOMAIN plots :
        plots[j].name \in ScatterNames => plots[j].x_from = plots[j].y_from
====
